---- MODULE Spec2Model ----
(***************************************************************************)
(* Model of streamlit_app.py, the sales dashboard.  One browser session of *)
(* the Streamlit script: the first run and one rerun per widget            *)
(* interaction.  Every rerun executes the script top to bottom.            *)
(*                                                                         *)
(* Dates are day ordinals of the year 2024 (1 = 2024-01-01).  Money is in  *)
(* cents where the code holds a float (profit) and in whole units where it *)
(* holds an integer (sales).  A margin is in hundredths of a percent.      *)
(***************************************************************************)
EXTENDS Integers, Sequences, FiniteSets, TLC

(***************************************************************************)
(* Bounds of the model.                                                    *)
(***************************************************************************)
\* length of the tape of random levels the generator cycles through
TapeLen == 3
\* largest number of data rows of a data.csv
MaxCsvRows == 2
\* the date picker offers min_date, max_date and every DateStep-th day
DateStep == 16
\* how many times the wall clock passes midnight during a session
MaxTicks == 1
\* largest number of data rows of a data.csv a whole session is explored for
SessionCsvRows == 1
\* how many widget interactions a session is explored for
MaxInteractions == 2

(***************************************************************************)
(* Values of the libraries.                                                *)
(***************************************************************************)
\* pandas' NaT, the missing timestamp
NaT == 0
\* a float or an object that may be missing: <<>> is NaN / None, <<v>> is v
NaN == <<>>
NoData == <<>>

Abs(x) == IF x < 0 THEN -x ELSE x

\* F applied to the value of v, with v evaluated once
Let(v, F(_)) == CHOOSE r \in {F(x) : x \in {v}} : TRUE

RECURSIVE SumRange(_, _, _)
SumRange(s, lo, hi) ==
    IF lo > hi THEN 0
    ELSE IF lo = hi THEN s[lo]
    ELSE LET mid == (lo + hi) \div 2
         IN  SumRange(s, lo, mid) + SumRange(s, mid + 1, hi)

\* Series.sum() of a column given as a sequence of integers; 0 for an empty one
SumSeq(s) == SumRange(s, 1, Len(s))

Column(frame, col) == [i \in 1..Len(frame) |-> frame[i][col]]

\* numpy's round(2) of profit / sales * 100: round-half-to-even of the exact
\* quotient, in hundredths of a percent; inf/NaN (sales = 0) is NaN
RoundDiv(num, den) ==
    LET q == num \div den
        r == num % den
    IN  IF 2 * r < den THEN q
        ELSE IF 2 * r > den THEN q + 1
        ELSE IF q % 2 = 0 THEN q ELSE q + 1

\* Margin with the quotient truncated instead of rounded
MarginTruncated(profit, sales) ==
    IF sales = 0 THEN NaN ELSE <<(profit * 100) \div sales>>

Margin(profit, sales) ==
    IF sales = 0 THEN NaN ELSE <<RoundDiv(profit * 100, sales)>>

(***************************************************************************)
(* Calendar: datetime.date <-> day ordinal of 2024.                        *)
(***************************************************************************)
MonthDays == <<31, 29, 31, 30, 31, 30, 31, 31, 30, 31, 30, 31>>

RECURSIVE DaysBefore(_)
DaysBefore(m) == IF m = 1 THEN 0 ELSE MonthDays[m - 1] + DaysBefore(m - 1)

\* pd.to_datetime of an ISO date <<y, m, d>> of 2024, as a day ordinal
Ordinal(ymd) == DaysBefore(ymd[2]) + ymd[3]

\* the date <<y, m, d>> of a day ordinal
DateOf(ord) ==
    LET m == CHOOSE k \in 1..12 : DaysBefore(k) < ord /\ ord <= DaysBefore(k) + MonthDays[k]
    IN  <<2024, m, ord - DaysBefore(m)>>

(***************************************************************************)
(* create_sample_data                                                      *)
(***************************************************************************)
categories0 == <<"Elettronica", "Abbigliamento", "Casa">>

products ==
    [Elettronica |-> <<"Smartphone", "Tablet", "Laptop", "TV", "Smartwatch">>,
     Abbigliamento |-> <<"Giacca", "Pantaloni", "Scarpe", "Maglietta">>,
     Casa |-> <<"Forno", "Frigorifero", "Lavatrice", "Microonde">>]

regions0 == <<"Nord", "Centro", "Sud">>

\* date_range0 with the end date left out
date_range0Exclusive ==
    [i \in 1..(Ordinal(<<2024, 1, 31>>) - Ordinal(<<2024, 1, 1>>)) |->
        Ordinal(<<2024, 1, 1>>) + i - 1]

\* pd.date_range('2024-01-01', '2024-01-31'): the day ordinals, in order
date_range0 ==
    [i \in 1..(Ordinal(<<2024, 1, 31>>) - Ordinal(<<2024, 1, 1>>) + 1) |->
        Ordinal(<<2024, 1, 1>>) + i - 1]

RECURSIVE Flatten(_, _)
\* the (category, product) pairs in the order the nested loops visit them
Flatten(cats, i) ==
    IF i > Len(cats) THEN <<>>
    ELSE [j \in 1..Len(products[cats[i]]) |-> <<cats[i], products[cats[i]][j]>>]
         \o Flatten(cats, i + 1)

LoopPairs == Flatten(categories0, 1)

(***************************************************************************)
(* numpy's global random generator.  Its state is a tape of levels         *)
(* (0 = the smallest value a draw can return, 1 = the middle, 2 = the      *)
(* largest) and a position; draw n reads the tape cyclically, shifted by   *)
(* one at every wrap, and advances the position.                           *)
(***************************************************************************)
Tapes == [1..TapeLen -> 0..2]

Level(rng, n) ==
    LET k == rng.pos + n
    IN  rng.tape[((k + (k \div TapeLen)) % TapeLen) + 1]

\* randint with the upper end included, as random.randint has it
randintInclusive(low, high, level) ==
    CASE level = 0 -> low
      [] level = 1 -> (low + high) \div 2
      [] OTHER -> high

\* np.random.randint(low, high): an integer of low..high-1
randint(low, high, level) ==
    CASE level = 0 -> low
      [] level = 1 -> (low + high) \div 2
      [] OTHER -> high - 1

\* np.random.uniform(0.25, 0.35), in hundredths: a value of [0.25, 0.35)
uniform(low, high, level) ==
    CASE level = 0 -> low
      [] level = 1 -> (low + high) \div 2
      [] OTHER -> high - 1

\* np.random.choice(list)
choice(list, level) == list[(level % Len(list)) + 1]

DrawsPerRecord == 4

SampleRecord(rng, k) ==
    LET date == date_range0[(k \div Len(LoopPairs)) + 1]
        pair == LoopPairs[(k % Len(LoopPairs)) + 1]
        sales == randint(1000, 20000, Level(rng, DrawsPerRecord * k))
        profit == sales * uniform(25, 35, Level(rng, DrawsPerRecord * k + 1))
        customers == sales \div randint(40, 60, Level(rng, DrawsPerRecord * k + 2))
        region == choice(regions0, Level(rng, DrawsPerRecord * k + 3))
    IN  [date |-> date, category |-> pair[1], product |-> pair[2],
         sales |-> sales, profit |-> profit, customers |-> customers,
         region |-> region, margin |-> Margin(profit, sales)]

create_sample_data(rng) ==
    LET n == Len(date_range0) * Len(LoopPairs)
    IN  [df |-> [i \in 1..n |-> SampleRecord(rng, i - 1)] \o <<>>,
         rng |-> [rng EXCEPT !.pos = (rng.pos + DrawsPerRecord * n) % (TapeLen * TapeLen)]]

(***************************************************************************)
(* data.csv.  A file is missing, unreadable (the tokenizer rejects a row), *)
(* or a table: the set of its columns and its rows.  A date cell is empty  *)
(* (<<>>), an ISO date <<y, m, d>>, or text that is no date (<<"x">>).     *)
(* Tables have at least one row with a date.                               *)
(***************************************************************************)
AllColumns == {"date", "category", "product", "sales", "profit", "customers", "region"}

DateCells == {<<>>, <<2024, 1, 3>>, <<2024, 2, 7>>, <<"x">>}

CsvItems ==
    {[category |-> "Casa", product |-> "Forno", sales |-> 300, profit |-> 5000,
      customers |-> 7, region |-> "Nord"],
     [category |-> "Elettronica", product |-> "TV", sales |-> 200, profit |-> 25,
      customers |-> 4, region |-> "Sud"]}

CsvRows ==
    {[date |-> d, category |-> it.category, product |-> it.product, sales |-> it.sales,
      profit |-> it.profit, customers |-> it.customers, region |-> it.region] :
        d \in DateCells, it \in CsvItems}

HasDate(rows) == \E i \in 1..Len(rows) : Len(rows[i].date) = 3

Tables(maxRows) ==
    {rows \in UNION {[1..n -> CsvRows] : n \in 1..maxRows} : HasDate(rows)}

MissingFile == [kind |-> "missing", columns |-> {}, rows |-> <<>>]
UnreadableFile == [kind |-> "unreadable", columns |-> {}, rows |-> <<>>]

\* every file with all columns, and every one-row file that lacks one column
Files(maxRows) ==
    {MissingFile, UnreadableFile}
    \cup {[kind |-> "csv", columns |-> AllColumns, rows |-> r] : r \in Tables(maxRows)}
    \cup {[kind |-> "csv", columns |-> AllColumns \ {c}, rows |-> r] :
            c \in AllColumns, r \in Tables(1)}

(***************************************************************************)
(* load_data                                                               *)
(***************************************************************************)
\* pd.to_datetime on one cell of the date column
to_datetime(cell) == IF Len(cell) = 0 THEN NaT ELSE Ordinal(cell)

CsvRecord(file, i) ==
    LET row == file.rows[i]
    IN  [c \in file.columns \cup {"margin"} |->
            CASE c = "date" -> to_datetime(row.date)
              [] c = "margin" -> Margin(row.profit, row.sales)
              [] OTHER -> row[c]]

\* the try block, lines 25-28: the exception it raises ("" for none) and df
TryBlock(file) ==
    LET fail(exc) == [raised |-> exc, df |-> NoData]
    IN  CASE file.kind = "missing" -> fail("FileNotFoundError")
          [] file.kind = "unreadable" -> fail("ParserError")
          [] "date" \notin file.columns -> fail("KeyError")
          [] \E i \in 1..Len(file.rows) : Len(file.rows[i].date) = 1 -> fail("ValueError")
          [] ~({"profit", "sales"} \subseteq file.columns) -> fail("KeyError")
          [] OTHER -> [raised |-> "",
                       df |-> [i \in 1..Len(file.rows) |-> CsvRecord(file, i)] \o <<>>]

\* Handled as a bare except would have it: every failure yields sample data
HandledAny(exc) == exc # ""

\* the except clause, line 29
Handled(exc) == exc = "FileNotFoundError"

\* the body of load_data, lines 24-32
LoadBody(file, rng) ==
    Let(TryBlock(file), LAMBDA t :
        IF Handled(t.raised)
        THEN Let(create_sample_data(rng), LAMBDA s :
                 [raised |-> "", df |-> s.df, columns |-> AllColumns \cup {"margin"},
                  warning |-> TRUE, rng |-> s.rng, sampled |-> 1])
        ELSE [raised |-> t.raised, df |-> t.df,
              columns |-> IF t.raised = "" THEN file.columns \cup {"margin"} ELSE {},
              warning |-> FALSE, rng |-> rng, sampled |-> 0])

\* CacheHit for a load_data without @st.cache_data
CacheHitNever(cache) == FALSE

\* @st.cache_data, line 22: a stored result is returned without running the body
CacheHit(cache) == Len(cache) > 0

\* load_data() as the script calls it, line 68.  A result is stored, with the
\* warning the body emitted (replayed on a hit); an exception is not stored.
load_data(cache, file, rng) ==
    IF CacheHit(cache)
    THEN [raised |-> "", df |-> cache[1].df, columns |-> cache[1].columns,
          warning |-> cache[1].warning, rng |-> rng, sampled |-> 0, body |-> 0,
          cache |-> cache]
    ELSE Let(LoadBody(file, rng), LAMBDA b :
             [raised |-> b.raised, df |-> b.df, columns |-> b.columns,
              warning |-> b.warning, rng |-> b.rng, sampled |-> b.sampled, body |-> 1,
              cache |-> IF b.raised = ""
                        THEN <<[df |-> b.df, columns |-> b.columns, warning |-> b.warning]>>
                        ELSE cache])

(***************************************************************************)
(* The script, block by block.  Every block maps the environment of the    *)
(* run (its variables, the exception raised so far, the widgets rendered)  *)
(* to the environment after it; after an exception no block runs.          *)
(***************************************************************************)
HasValue(opt) == Len(opt) > 0

SetOf(seq) == {seq[i] : i \in 1..Len(seq)}

\* Series.min() / Series.max() of a date column: NaT values are skipped
DateMin(frame) ==
    LET ds == {frame[i].date : i \in 1..Len(frame)} \ {NaT}
    IN  IF ds = {} THEN NaT ELSE CHOOSE d \in ds : \A e \in ds : d <= e

DateMax(frame) ==
    LET ds == {frame[i].date : i \in 1..Len(frame)} \ {NaT}
    IN  IF ds = {} THEN NaT ELSE CHOOSE d \in ds : \A e \in ds : d >= e

\* a comparison of timestamps: every comparison with NaT is False
DateGE(a, b) == a # NaT /\ b # NaT /\ a >= b
\* DateLE with < for <=
DateLT(a, b) == a # NaT /\ b # NaT /\ a < b
DateLE(a, b) == a # NaT /\ b # NaT /\ a <= b

Raise(env, exc, where) == [env EXCEPT !.raised = exc, !.at = where]

\* the environment a run starts with: the inputs of the run and nothing computed
StartEnv(file, rng, cache, session, clicked, now) ==
    [file |-> file, rng |-> rng, cache |-> cache, session |-> session,
     clicked |-> clicked, now |-> now,
     raised |-> "", at |-> "start", rendered |-> {}, body |-> 0, sampled |-> 0,
     df |-> NoData, columns |-> {}, warning |-> FALSE,
     min_date |-> NaT, max_date |-> NaT, date_range |-> <<>>,
     categories |-> {}, selected_categories |-> {},
     regions |-> {}, selected_regions |-> {},
     filtered_df |-> NoData, filtered |-> FALSE,
     total_sales |-> 0, delta_sales |-> NaN, total_profit |-> 0, margin_delta |-> NaN,
     avg_customers |-> NaN, unique_products |-> 0, transactions |-> 0, kpis |-> 0,
     view_option |-> "", table |-> "", download |-> <<>>, info |-> <<>>]

\* line 68, df = load_data()
LoadBlock(env) ==
    Let(load_data(env.cache, env.file, env.rng), LAMBDA l :
        IF l.raised # ""
        THEN [Raise(env, l.raised, "load_data") EXCEPT !.body = l.body]
        ELSE [env EXCEPT !.df = l.df, !.columns = l.columns, !.warning = l.warning,
                         !.rng = l.rng, !.cache = l.cache, !.body = l.body,
                         !.sampled = l.sampled, !.at = "load_data"])

\* lines 74-81, the date picker: the value the user left in it, (min, max) at first
DateBlock(env) ==
    Let(<<DateMin(env.df), DateMax(env.df)>>, LAMBDA m :
        [env EXCEPT !.min_date = m[1], !.max_date = m[2],
                    !.date_range = IF HasValue(env.session.date_range)
                                   THEN env.session.date_range[1] ELSE m,
                    !.rendered = @ \cup {"date_range"}, !.at = "date_input"])

\* lines 84-89, the category multiselect
CategoryBlock(env) ==
    IF "category" \notin env.columns THEN Raise(env, "KeyError", "categories")
    ELSE Let({env.df[i].category : i \in 1..Len(env.df)}, LAMBDA cats :
             [env EXCEPT !.categories = cats,
                         !.selected_categories =
                             IF HasValue(env.session.selected_categories)
                             THEN env.session.selected_categories[1] ELSE cats,
                         !.rendered = @ \cup {"selected_categories"}, !.at = "categories"])

\* lines 92-97, the region multiselect
RegionBlock(env) ==
    IF "region" \notin env.columns THEN Raise(env, "KeyError", "regions")
    ELSE Let({env.df[i].region : i \in 1..Len(env.df)}, LAMBDA regs :
             [env EXCEPT !.regions = regs,
                         !.selected_regions =
                             IF HasValue(env.session.selected_regions)
                             THEN env.session.selected_regions[1] ELSE regs,
                         !.rendered = @ \cup {"selected_regions"}, !.at = "regions"])

\* lines 101-106, the mask of one record
Mask(r, date_range, selected_categories, selected_regions) ==
    /\ DateGE(r.date, date_range[1])
    /\ DateLE(r.date, date_range[2])
    /\ r.category \in selected_categories
    /\ r.region \in selected_regions

\* df[mask].copy(): the records the mask keeps, in the order of df
Select(frame, date_range, selected_categories, selected_regions) ==
    SelectSeq(frame, LAMBDA r : Mask(r, date_range, selected_categories, selected_regions))

\* lines 100-109, the value of filtered_df
Filtered(frame, date_range, selected_categories, selected_regions) ==
    IF Len(date_range) = 2
    THEN Select(frame, date_range, selected_categories, selected_regions)
    ELSE frame

\* FilterBlock with df = df[mask] in place of a copy bound to filtered_df
FilterBlockRebind(env) ==
    Let(Filtered(env.df, env.date_range, env.selected_categories, env.selected_regions),
        LAMBDA f : [env EXCEPT !.df = f, !.filtered_df = f, !.filtered = TRUE,
                               !.at = "filter"])

\* lines 100-109
FilterBlock(env) ==
    [env EXCEPT !.filtered_df = Filtered(env.df, env.date_range, env.selected_categories,
                                         env.selected_regions),
                !.filtered = TRUE, !.at = "filter"]

\* numpy's x / y * 100 on its scalars: NaN or inf (here NaN) when y is 0, never
\* an exception; in whole percent
Percent(x, y) == IF y = 0 THEN NaN ELSE <<(x * 100) \div y>>

total_sales(frame) == SumSeq(Column(frame, "sales"))
total_profit(frame) == SumSeq(Column(frame, "profit"))

\* lines 116-131, the cards of col1 and col2
SalesProfitCards(env) ==
    Let(<<total_sales(env.filtered_df), total_profit(env.filtered_df), total_sales(env.df)>>,
        LAMBDA t :
        [env EXCEPT !.total_sales = t[1],
                    !.delta_sales = IF t[3] = 0 THEN NaN ELSE <<Percent(t[1], t[3])[1] - 100>>,
                    !.total_profit = t[2],
                    \* profit in cents over sales in units is a percentage
                    !.margin_delta = IF t[1] = 0 THEN NaN ELSE <<t[2] \div t[1]>>,
                    !.kpis = 2, !.at = "kpi"])

\* lines 133-139, the card of col3
CustomersCard(env) ==
    IF "customers" \notin env.columns THEN Raise(env, "KeyError", "kpi")
    ELSE [env EXCEPT !.avg_customers =
                         IF Len(env.filtered_df) = 0 THEN NaN
                         ELSE <<SumSeq(Column(env.filtered_df, "customers"))
                                \div Len(env.filtered_df)>>,
                     !.kpis = 3]

\* lines 141-147, the card of col4
ProductsCard(env) ==
    IF "product" \notin env.columns THEN Raise(env, "KeyError", "kpi")
    ELSE [env EXCEPT !.unique_products =
                         Cardinality({env.filtered_df[i].product :
                                        i \in 1..Len(env.filtered_df)}),
                     !.transactions = Len(env.filtered_df), !.kpis = 4]

\* lines 151-249, the charts: group-bys of filtered_df handed to plotly; an empty
\* frame gives empty charts
ChartBlock(env) == [env EXCEPT !.at = "charts"]

\* lines 255-276, the radio and the table it selects
TableBlock(env) ==
    LET v == IF HasValue(env.session.view_option)
             THEN env.session.view_option[1] ELSE "Sintesi"
    IN  [env EXCEPT !.view_option = v,
                    !.table = IF v = "Sintesi" THEN "summary_df" ELSE "filtered_df",
                    !.rendered = @ \cup {"view_option"}, !.at = "table"]

(***************************************************************************)
(* Formatting: DataFrame.to_csv and strftime.                              *)
(***************************************************************************)
ColumnOrder == <<"date", "category", "product", "sales", "profit", "customers", "region",
                 "margin">>

\* the decimal digits of n, zero-padded to width w
RECURSIVE Digits(_, _)
Digits(n, w) == IF w = 0 THEN <<>> ELSE Append(Digits(n \div 10, w - 1), n % 10)

\* strftime('%Y%m%d') of a date <<y, m, d>>
StrftimeYmd(date) == Digits(date[1], 4) \o Digits(date[2], 2) \o Digits(date[3], 2)

\* strftime('%d/%m') of a timestamp
StrftimeDm(ord) == Digits(DateOf(ord)[3], 2) \o <<"/">> \o Digits(DateOf(ord)[2], 2)

\* one cell of the CSV text: a date as its ISO date, a missing value as the empty cell
Cell(col, value) ==
    CASE col = "date" -> IF value = NaT THEN <<>> ELSE DateOf(value)
      [] col = "margin" -> value
      [] OTHER -> <<value>>

\* filtered_df.to_csv(index=False): the header line, then one line per record
to_csv(frame, columns) ==
    Let(SelectSeq(ColumnOrder, LAMBDA c : c \in columns), LAMBDA header :
        <<header>> \o
        [i \in 1..Len(frame) |->
            [j \in 1..Len(header) |-> Cell(header[j], frame[i][header[j]])]])

\* ExportBlock with the download built on every run, pressed or not
ExportBlockAlways(env) ==
    [env EXCEPT !.download =
                    <<[data |-> to_csv(env.filtered_df, env.columns),
                       file_name |-> <<"dashboard_data_">> \o StrftimeYmd(env.now)
                                     \o <<".csv">>]>>,
                !.rendered = @ \cup {"export", "download"}, !.at = "export"]

\* lines 282-289, the export button and the download it offers
ExportBlock(env) ==
    IF env.clicked
    THEN [env EXCEPT !.download =
                         <<[data |-> to_csv(env.filtered_df, env.columns),
                            file_name |-> <<"dashboard_data_">> \o StrftimeYmd(env.now)
                                          \o <<".csv">>]>>,
                     !.rendered = @ \cup {"export", "download"}, !.at = "export"]
    ELSE [env EXCEPT !.rendered = @ \cup {"export"}, !.at = "export"]

\* lines 293-305, the information box: NaT.strftime raises ValueError
InfoBlock(env) ==
    Let(<<DateMin(env.filtered_df), DateMax(env.filtered_df)>>, LAMBDA m :
        IF m[1] = NaT \/ m[2] = NaT THEN Raise(env, "ValueError", "info")
        ELSE [env EXCEPT !.info = <<[total |-> Len(env.filtered_df),
                                     from |-> StrftimeDm(m[1]), to |-> StrftimeDm(m[2])]>>,
                         !.at = "info"])

\* lines 308-309
FooterBlock(env) == [env EXCEPT !.at = "footer"]

\* one statement after another: a block runs only if nothing was raised before it
Then(before, Block(_)) ==
    Let(before, LAMBDA env : IF env.raised # "" THEN env ELSE Block(env))

\* one run of the script, top to bottom
Script(env) ==
    Then(Then(Then(Then(Then(Then(Then(Then(Then(Then(Then(Then(Then(env,
        LoadBlock), DateBlock), CategoryBlock), RegionBlock), FilterBlock),
        SalesProfitCards), CustomersCard), ProductsCard), ChartBlock), TableBlock),
        ExportBlock), InfoBlock), FooterBlock)

(***************************************************************************)
(* The session.                                                            *)
(***************************************************************************)
VARIABLES
    file,         \* data.csv on disk
    rng,          \* the state of numpy's global random generator
    now,          \* the wall clock's date <<y, m, d>>
    ticks,        \* how many midnights have passed
    cache,        \* what @st.cache_data holds for load_data: <<>> or <<entry>>
    loads,        \* history: the datasets the body of load_data has returned
    bodyRuns,     \* history: executions of the body of load_data
    sampleRuns,   \* history: executions of create_sample_data
    started,      \* the script has run at least once
    session,      \* the widget values Streamlit keeps between reruns
    clicked,      \* the last run was triggered by 'Scarica CSV Filtrato'
    df,           \* the script's df at the end of the last run
    filtered_df,  \* the script's filtered_df at the end of the last run
    page,         \* everything else the last run computed and showed
    interactions, \* how many widget interactions the session has seen
    download      \* the download the last run offers: <<>> or <<[data, file_name]>>

vars == <<file, rng, now, ticks, cache, loads, bodyRuns, sampleRuns, started, session,
          clicked, df, filtered_df, page, interactions, download>>

NoSession ==
    [date_range |-> <<>>, selected_categories |-> <<>>, selected_regions |-> <<>>,
     view_option |-> <<>>]

\* the widget values Streamlit keeps after a run: those of the widgets it rendered
Kept(env) ==
    LET keep(w, v) == IF w \in env.rendered THEN <<v>> ELSE <<>>
    IN  [date_range |-> keep("date_range", env.date_range),
         selected_categories |-> keep("selected_categories", env.selected_categories),
         selected_regions |-> keep("selected_regions", env.selected_regions),
         view_option |-> keep("view_option", env.view_option)]

Page(env) ==
    [raised |-> env.raised, at |-> env.at, rendered |-> env.rendered,
     warning |-> env.warning, columns |-> env.columns, filtered |-> env.filtered,
     min_date |-> env.min_date, max_date |-> env.max_date,
     categories |-> env.categories, regions |-> env.regions,
     total_sales |-> env.total_sales, delta_sales |-> env.delta_sales,
     total_profit |-> env.total_profit, margin_delta |-> env.margin_delta,
     avg_customers |-> env.avg_customers, unique_products |-> env.unique_products,
     transactions |-> env.transactions, kpis |-> env.kpis,
     table |-> env.table, info |-> env.info, run_date |-> env.now]

TapeOf(seed) ==
    [i \in 1..TapeLen |->
        LET RECURSIVE shift(_, _)
            shift(n, k) == IF k = 0 THEN n ELSE shift(n \div 3, k - 1)
        IN  shift(seed, i - 1) % 3]

\* the generator states a whole session is explored for: all three regions
\* drawn, and only two of them drawn
SessionSeeds == {5, 18}

InitWith(files, tapes) ==
    /\ file \in files
    /\ rng \in [tape : IF file = MissingFile THEN tapes ELSE {TapeOf(0)}, pos : {0}]
    /\ now = <<2024, 12, 31>>
    /\ ticks = 0
    /\ cache = <<>>
    /\ loads = <<>>
    /\ bodyRuns = 0
    /\ sampleRuns = 0
    /\ started = FALSE
    /\ session = NoSession
    /\ clicked = FALSE
    /\ df = NoData
    /\ filtered_df = NoData
    /\ page = Page(StartEnv(file, rng, cache, NoSession, FALSE, now))
    /\ interactions = 0
    /\ download = <<>>

Init == InitWith(Files(SessionCsvRows), {TapeOf(s) : s \in SessionSeeds})

\* one run of the script for the widget values sess, triggered by the export
\* button (click) or by anything else
Run(sess, click) ==
    \E env \in {Script(StartEnv(file, rng, cache, sess, click, now))} :
        LET loaded == env.body = 1 /\ ~(env.at = "load_data" /\ env.raised # "")
        IN
        /\ rng' = env.rng
        /\ cache' = env.cache
        /\ loads' = IF loaded THEN Append(loads, env.cache[1].df) ELSE loads
        /\ bodyRuns' = bodyRuns + env.body
        /\ sampleRuns' = sampleRuns + env.sampled
        /\ started' = TRUE
        /\ session' = Kept(env)
        /\ clicked' = click
        /\ df' = env.df
        /\ filtered_df' = env.filtered_df
        /\ page' = Page(env)
        /\ download' = env.download
        /\ UNCHANGED <<file, now, ticks>>

\* the browser connects: the first run, every widget at its default
FirstRun ==
    /\ ~started
    /\ Run(NoSession, FALSE)
    /\ UNCHANGED interactions

\* a widget interaction: the widget is on the page, and the rerun it triggers
Interact(widget, sess, click) ==
    /\ widget \in page.rendered
    /\ interactions < MaxInteractions
    /\ interactions' = interactions + 1
    /\ Run(sess, click)

\* the dates the picker offers
PickDays(lo, hi) == {lo, hi} \cup {d \in lo..hi : d % DateStep = 0}

\* the values the date picker can hold: one date (a range being picked) or two
DateChoices(lo, hi) ==
    {<<a>> : a \in PickDays(lo, hi)}
    \cup {<<p[1], p[2]>> : p \in {q \in PickDays(lo, hi) \X PickDays(lo, hi) : q[1] <= q[2]}}

\* the user changes the date picker
PickDates ==
    \E dr \in DateChoices(page.min_date, page.max_date) :
        /\ <<dr>> # session.date_range
        /\ Interact("date_range", [session EXCEPT !.date_range = <<dr>>], FALSE)

\* the user adds or removes one category
PickCategories ==
    \E c \in page.categories :
        LET cur == session.selected_categories[1]
        IN  Interact("selected_categories",
                     [session EXCEPT !.selected_categories =
                                         <<IF c \in cur THEN cur \ {c} ELSE cur \cup {c}>>],
                     FALSE)

\* the user adds or removes one region
PickRegions ==
    \E r \in page.regions :
        LET cur == session.selected_regions[1]
        IN  Interact("selected_regions",
                     [session EXCEPT !.selected_regions =
                                         <<IF r \in cur THEN cur \ {r} ELSE cur \cup {r}>>],
                     FALSE)

\* the user toggles the view mode
PickView ==
    \E v \in {"Sintesi", "Dettaglio Completo"} :
        /\ <<v>> # session.view_option
        /\ Interact("view_option", [session EXCEPT !.view_option = <<v>>], FALSE)

\* the user presses 'Scarica CSV Filtrato'
PressExport ==
    Interact("export", session, TRUE)

\* the user presses 'Download CSV': the browser saves the offered file and the
\* script reruns with no button pressed
ClickDownload ==
    Interact("download", session, FALSE)

NextDay(date) ==
    IF date[3] < MonthDays[date[2]] THEN <<date[1], date[2], date[3] + 1>>
    ELSE IF date[2] < 12 THEN <<date[1], date[2] + 1, 1>>
    ELSE <<date[1] + 1, 1, 1>>

\* midnight passes
Tick ==
    /\ ticks < MaxTicks
    /\ ticks' = ticks + 1
    /\ now' = NextDay(now)
    /\ UNCHANGED <<file, rng, cache, loads, bodyRuns, sampleRuns, started, session,
                   clicked, df, filtered_df, page, interactions, download>>

Next ==
    \/ FirstRun
    \/ PickDates
    \/ PickCategories
    \/ PickRegions
    \/ PickView
    \/ PressExport
    \/ ClickDownload
    \/ Tick

Spec == Init /\ [][Next]_vars

(***************************************************************************)
(* Loading alone: every generator state and every data.csv within the      *)
(* bounds, and the first run of the script.                                *)
(***************************************************************************)
InitLoad == InitWith(Files(MaxCsvRows), Tapes)

NextLoad == FirstRun

SpecLoad == InitLoad /\ [][NextLoad]_vars

(***************************************************************************)
(* Properties.                                                             *)
(***************************************************************************)
\* the widget values of the last run
Selected == [date_range |-> session.date_range[1],
             categories |-> session.selected_categories[1],
             regions |-> session.selected_regions[1]]

\* record r satisfies the date, category and region selection; a picker that
\* holds one date is read as putting no condition on the date
Satisfies(r, sel) ==
    /\ Len(sel.date_range) = 2 =>
          /\ r.date # NaT
          /\ sel.date_range[1] <= r.date
          /\ r.date <= sel.date_range[2]
    /\ r.category \in sel.categories
    /\ r.region \in sel.regions

\* the positions of the records of frame that satisfy the selection
Positions(frame, sel) == {i \in 1..Len(frame) : Satisfies(frame[i], sel)}

\* sub holds exactly the records of frame at the positions pos, in order
IsSelection(sub, frame, pos) ==
    /\ Len(sub) = Cardinality(pos)
    /\ \A i \in 1..Len(frame) :
          i \in pos => sub[Cardinality({j \in pos : j <= i})] = frame[i]

\* C1: after every rerun that reached the filter block, filtered_df holds only
\* records of df, each inside the selected date range, of a selected category and
\* of a selected region, and every such record of df is in it -- also while the
\* date picker holds a single date.
C1_FilteredIsTheSelection ==
    page.filtered => IsSelection(filtered_df, df, Positions(df, Selected))

\* C2: once the script has run, no rerun changes df: whatever the user does to
\* the filters, the view mode or the export button, df stays as it was loaded.
C2_DfNeverChanges == [][started => df' = df]_vars

\* a session on a loaded dataset that has seen a narrowing filter and then an
\* export press or the detail view
C2_Witness ==
    /\ Len(df) > 0
    /\ page.at = "footer"
    /\ clicked \/ page.table = "filtered_df"
    /\ Len(filtered_df) > 0
    /\ Len(filtered_df) < Len(df)

\* C3: within a session the body of load_data, and create_sample_data with it,
\* runs at most once, and every rerun's df is the one dataset that body returned.
C3_LoadedOnce ==
    /\ bodyRuns <= 1
    /\ sampleRuns <= 1
    /\ Len(loads) <= 1
    /\ Len(df) > 0 => loads = <<df>>

\* the first run and MaxInteractions reruns, on generated data
C3_Witness ==
    /\ sampleRuns = 1
    /\ interactions = MaxInteractions
    /\ Len(df) > 0

\* the records a CSV text holds, read back: the header names the fields
FromCsv(lines) ==
    LET header == lines[1]
        value(col, cell) ==
            CASE col = "date" -> IF Len(cell) = 0 THEN NaT ELSE Ordinal(cell)
              [] col = "margin" -> cell
              [] OTHER -> cell[1]
    IN  [i \in 1..(Len(lines) - 1) |->
            [c \in SetOf(header) |->
                LET j == CHOOSE k \in 1..Len(header) : header[k] = c
                IN  value(c, lines[i + 1][j])]]

\* the date <<y, m, d>> that eight decimal digits YYYYMMDD spell
DateOfDigits(ds) ==
    <<ds[1] * 1000 + ds[2] * 100 + ds[3] * 10 + ds[4], ds[5] * 10 + ds[6],
      ds[7] * 10 + ds[8]>>

\* C7: a download is offered exactly by the reruns the export button triggered;
\* its content is the records of the filtered_df of that same rerun, which is the
\* one computed from the current selections, and its file name carries the date
\* of that rerun as YYYYMMDD.
C7_ExportIsCurrent ==
    /\ HasValue(download) => clicked
    /\ (clicked /\ "export" \in page.rendered) => HasValue(download)
    /\ HasValue(download) =>
          /\ FromCsv(download[1].data) = filtered_df
          /\ filtered_df = Filtered(df, Selected.date_range, Selected.categories,
                                    Selected.regions)
          /\ Len(download[1].file_name) = 10
          /\ download[1].file_name[1] = "dashboard_data_"
          /\ DateOfDigits(SubSeq(download[1].file_name, 2, 9)) = page.run_date
          /\ download[1].file_name[10] = ".csv"

\* an export pressed after the filters were narrowed and midnight has passed
C7_Witness ==
    /\ HasValue(download)
    /\ Len(filtered_df) > 0
    /\ Len(filtered_df) < Len(df)
    /\ ticks > 0

\* data.csv is missing, or has all seven columns and dates that parse
WellFormed ==
    \/ file.kind = "missing"
    \/ /\ file.kind = "csv"
       /\ file.columns = AllColumns
       /\ \A i \in 1..Len(file.rows) : Len(file.rows[i].date) # 1

\* C10: every run of the script on a loadable dataset reaches the footer without
\* raising, whatever the filters select -- nothing at all included.
C10_RunCompletes ==
    (started /\ WellFormed) => (page.raised = "" /\ page.at = "footer")

\* the days of January 2024, as timestamps
January == {Ordinal(<<2024, 1, d>>) : d \in 1..31}

\* C4: with data.csv missing, load_data warns and returns what
\* create_sample_data made: a non-empty dataset whose dates are exactly the 31
\* days from 2024-01-01 to 2024-01-31, none of them without a record.
C4_SampleSpansJanuary ==
    (started /\ file.kind = "missing") =>
        /\ page.warning
        /\ sampleRuns = 1
        /\ Len(df) > 0
        /\ {df[i].date : i \in 1..Len(df)} = January
        /\ DateOf(page.min_date) = <<2024, 1, 1>>
        /\ DateOf(page.max_date) = <<2024, 1, 31>>

\* the first run on a missing data.csv has reached the footer
C4_Witness ==
    /\ started
    /\ file.kind = "missing"
    /\ page.at = "footer"

\* C6: every record of the loaded dataset, read or generated, has a margin within
\* half a hundredth of its own profit / sales * 100.
C6_MarginOfRecord ==
    \A i \in 1..Len(df) :
        df[i].sales # 0 =>
            /\ Len(df[i].margin) = 1
            /\ 2 * Abs(df[i].margin[1] * df[i].sales - 100 * df[i].profit)
                  <= df[i].sales

\* a dataset read from data.csv with a margin that had to be rounded up, and one
\* generated
C6_Witness ==
    /\ file.kind = "csv"
    /\ \E i \in 1..Len(df) : (100 * df[i].profit) % df[i].sales > df[i].sales \div 2

\* the fixed product lists, by product
CategoryOf ==
    [Smartphone |-> "Elettronica", Tablet |-> "Elettronica", Laptop |-> "Elettronica",
     TV |-> "Elettronica", Smartwatch |-> "Elettronica",
     Giacca |-> "Abbigliamento", Pantaloni |-> "Abbigliamento",
     Scarpe |-> "Abbigliamento", Maglietta |-> "Abbigliamento",
     Forno |-> "Casa", Frigorifero |-> "Casa", Lavatrice |-> "Casa",
     Microonde |-> "Casa"]

\* C9: the generated dataset has exactly one record for every day of January
\* 2024 and every one of the 13 products, 403 in all; its category is the
\* product's, its region one of the three, 1000 <= sales < 20000, its profit
\* between 25% and 35% of its sales, its customers positive.
C9_SampleRecords ==
    (started /\ file.kind = "missing") =>
        /\ Len(df) = 403
        /\ \A d \in January : \A p \in DOMAIN CategoryOf :
              Cardinality({i \in 1..Len(df) : df[i].date = d /\ df[i].product = p}) = 1
        /\ \A i \in 1..Len(df) :
              /\ df[i].date \in January
              /\ df[i].product \in DOMAIN CategoryOf
              /\ df[i].category = CategoryOf[df[i].product]
              /\ df[i].region \in {"Nord", "Centro", "Sud"}
              /\ 1000 <= df[i].sales /\ df[i].sales < 20000
              /\ 25 * df[i].sales <= df[i].profit /\ df[i].profit <= 35 * df[i].sales
              /\ df[i].customers > 0

\* a generated dataset with the largest and the smallest sales a draw can give
C9_Witness ==
    /\ started
    /\ file.kind = "missing"
    /\ \E i \in 1..Len(df) : df[i].sales = 19999
    /\ \E i \in 1..Len(df) : df[i].sales = 1000 /\ df[i].customers = 1000 \div 59

\* data.csv cannot be read, or lacks one of the seven columns, or has a date
\* that does not parse
Defective ==
    \/ file.kind = "unreadable"
    \/ /\ file.kind = "csv"
       /\ \/ file.columns # AllColumns
          \/ \E i \in 1..Len(file.rows) : Len(file.rows[i].date) = 1

\* data.csv cannot be read, or lacks a column load_data reads, or has a date that
\* does not parse
FailsInLoad ==
    \/ file.kind = "unreadable"
    \/ /\ file.kind = "csv"
       /\ \/ ~({"date", "profit", "sales"} \subseteq file.columns)
          \/ \E i \in 1..Len(file.rows) : Len(file.rows[i].date) = 1

\* the run stopped in load_data: no dataset, no sample data, nothing computed
StoppedInLoad ==
    /\ page.raised # ""
    /\ page.at = "load_data"
    /\ Len(df) = 0
    /\ cache = <<>>
    /\ sampleRuns = 0
    /\ ~page.warning
    /\ ~page.filtered
    /\ page.kpis = 0
    /\ page.rendered = {}

\* C8 as stated: whenever data.csv exists and is defective (unreadable, a
\* required column lacking, a date that does not parse), the run stops in
\* load_data with no dataset and no sample data.
C8_DefectiveFileStopsInLoad == (started /\ Defective) => StoppedInLoad

\* C8, amended: whenever data.csv exists and cannot be read, lacks a column that
\* load_data itself reads (date, profit, sales) or has a date that does not
\* parse, the run stops in load_data with no dataset and no sample data.
C8_LoadFailureStopsRun == (started /\ FailsInLoad) => StoppedInLoad

\* runs stopped by each kind of failure in load_data
C8_Witness ==
    /\ started
    /\ file.kind = "csv"
    /\ \E i \in 1..Len(file.rows) : Len(file.rows[i].date) = 1
    /\ page.raised = "ValueError"

RECURSIVE SeqOfSet(_)
SeqOfSet(S) ==
    IF S = {} THEN <<>>
    ELSE LET x == CHOOSE y \in S : TRUE IN <<x>> \o SeqOfSet(S \ {x})

\* the KPI totals of a frame: total sales, total profit, number of transactions
Kpis(frame) == <<total_sales(frame), total_profit(frame), Len(frame)>>

\* the filters at their defaults
Defaults ==
    [date_range |-> <<page.min_date, page.max_date>>,
     categories |-> page.categories, regions |-> page.regions]

\* the KPI totals of filtered_df for each selection of parts, summed
PartTotals(parts) ==
    Let([i \in 1..Len(parts) |->
            Kpis(Filtered(df, parts[i].date_range, parts[i].categories,
                          parts[i].regions))] \o <<>>,
        LAMBDA k : <<SumSeq([i \in 1..Len(k) |-> k[i][1]]),
                     SumSeq([i \in 1..Len(k) |-> k[i][2]]),
                     SumSeq([i \in 1..Len(k) |-> k[i][3]])>>)

\* one part per category, one part per region
ByCategory ==
    Let(SeqOfSet(page.categories), LAMBDA cs :
        [i \in 1..Len(cs) |-> [Defaults EXCEPT !.categories = {cs[i]}]])

ByRegion ==
    Let(SeqOfSet(page.regions), LAMBDA rs :
        [i \in 1..Len(rs) |-> [Defaults EXCEPT !.regions = {rs[i]}]])

\* min_date..k and k+1..max_date
ByDateCut(k) ==
    <<[Defaults EXCEPT !.date_range = <<page.min_date, k>>],
      [Defaults EXCEPT !.date_range = <<k + 1, page.max_date>>]>>

\* one part per day of min_date..max_date
ByDay ==
    [i \in 1..(page.max_date - page.min_date + 1) |->
        [Defaults EXCEPT !.date_range = <<page.min_date + i - 1, page.min_date + i - 1>>]]

\* the partitions of the filter space along one key all total to `whole'
PartitionsTotal(whole) ==
    /\ PartTotals(ByCategory) = whole
    /\ PartTotals(ByRegion) = whole
    /\ PartTotals(ByDay) = whole
    /\ \A k \in page.min_date..(page.max_date - 1) : PartTotals(ByDateCut(k)) = whole

\* every record of df has a date
AllDated == \A i \in 1..Len(df) : df[i].date # NaT

\* C5 as stated: for the partition by category, by region and by disjoint date
\* ranges covering min_date..max_date, the other filters at their defaults, the
\* KPI totals of the parts sum to the KPI totals of the whole dataset df.
C5_PartsSumToDataset ==
    (started /\ WellFormed) => PartitionsTotal(Kpis(df))

\* C5, amended: the same, for a dataset in which every record has a date.
C5_PartsSumToDatedDataset ==
    (started /\ WellFormed /\ AllDated) => PartitionsTotal(Kpis(df))

\* a loaded dataset of three categories and three regions, every record dated
C5_Witness ==
    /\ started
    /\ WellFormed
    /\ AllDated
    /\ page.at = "footer"
    /\ Cardinality(page.categories) = 3
    /\ Cardinality(page.regions) = 3

====
